---- MODULE Spec2Model ----
(***************************************************************************)
(* A model of syft_tensorflow/hook/hook.py (class TensorFlowHook): the     *)
(* guarded installation of the hook, the type hook (constructor, lazy      *)
(* properties, proxy methods), the module sweep, the module-path rewriting *)
(* of _get_hooked_func and the unsynchronised lazy id/owner properties.    *)
(*                                                                         *)
(* Python objects are modelled by their attribute tables: a function whose *)
(* DOMAIN is dir(obj) and whose values are records naming the object an    *)
(* attribute is bound to.  Attribute names are strings, so that the        *)
(* f"native_{name}" prefixing and the substring tests of the code are      *)
(* computed, not assumed.                                                  *)
(***************************************************************************)
EXTENDS Naturals, Sequences, FiniteSets, TLC

-----------------------------------------------------------------------------
(* Strings: ordering and substring tests as Python computes them.          *)

\* Code-point order of the characters that occur in attribute names.
Alphabet == "0123456789ABCDEFGHIJKLMNOPQRSTUVWXYZ_abcdefghijklmnopqrstuvwxyz"

UpperCase == "ABCDEFGHIJKLMNOPQRSTUVWXYZ"

CharAt(s, i) == SubSeq(s, i, i)

\* code-point rank of each character
Rank == [c \in {CharAt(Alphabet, i) : i \in 1..Len(Alphabet)} |->
            CHOOSE i \in 1..Len(Alphabet) : CharAt(Alphabet, i) = c]

CharRank(c) == Rank[c]

UpperChars == {CharAt(UpperCase, i) : i \in 1..Len(UpperCase)}

\* str.isupper() of one character
IsUpperChar(c) == c \in UpperChars

\* `sub in s` for strings
Contains(s, sub) ==
    \E i \in 1..(Len(s) - Len(sub) + 1) : SubSeq(s, i, i + Len(sub) - 1) = sub

RECURSIVE StrLessFrom(_, _, _)
StrLessFrom(a, b, i) ==
    IF i > Len(a) THEN i <= Len(b)
    ELSE IF i > Len(b) THEN FALSE
    ELSE IF CharAt(a, i) = CharAt(b, i) THEN StrLessFrom(a, b, i + 1)
    ELSE CharRank(CharAt(a, i)) < CharRank(CharAt(b, i))

\* a < b for Python strings (lexicographic by code point)
StrLess(a, b) == StrLessFrom(a, b, 1)

RECURSIVE Insert(_, _)
Insert(x, seq) ==
    IF seq = <<>> THEN <<x>>
    ELSE IF StrLess(x, Head(seq)) THEN <<x>> \o seq
    ELSE <<Head(seq)>> \o Insert(x, Tail(seq))

RECURSIVE SortedNames(_)
\* the sorted list of names dir() returns
SortedNames(S) ==
    IF S = {} THEN <<>>
    ELSE LET x == CHOOSE y \in S : TRUE
         IN  Insert(x, SortedNames(S \ {x}))

\* dir(obj)
Dir(attrs) == SortedNames(DOMAIN attrs)

\* hasattr(obj, name)
HasAttr(attrs, name) == name \in DOMAIN attrs

\* setattr(obj, name, value)
SetAttr(attrs, name, value) ==
    [x \in (DOMAIN attrs) \cup {name} |-> IF x = name THEN value ELSE attrs[x]]

\* f"native_{name}"
NativeName(name) == "native_" \o name

\* The object an attribute is bound to: what kind of object it is, the type,
\* module or hook it belongs to, its name, and a serial number that tells two
\* wrappers built for the same function apart.
Obj(kind, of, name, ser) == [kind |-> kind, of |-> of, name |-> name, ser |-> ser]

-----------------------------------------------------------------------------
(* _add_methods_from_native_tensor (hook.py 256-302)                       *)

exclude ==
    { "__class__", "__delattr__", "__dir__", "__doc__", "__dict__",
      "__format__", "__getattribute__", "__hash__", "__init__",
      "__init_subclass__", "__weakref__", "__ne__", "__new__", "__reduce__",
      "__reduce_ex__", "__setattr__", "__sizeof__", "__subclasshook__",
      "__gt__", "__ge__", "__lt__", "__le__" }

\* The alias step left out: the native object is not kept.
AliasNativeSkipped(t, attr) == t

\* lines 295-300: alias `attr` as native_<attr> if the type already has it
AliasNative(t, attr) ==
    IF HasAttr(t, attr)
    THEN SetAttr(t, NativeName(attr), t[attr])
    ELSE t

\* line 293: `if attr not in exclude`
NotExcluded(attr) == attr \notin exclude

\* one iteration of the loop of lines 292-302
AddOneMethod(t, p, attr) ==
    IF NotExcluded(attr)
    THEN SetAttr(AliasNative(t, attr), attr, p[attr])
    ELSE t

RECURSIVE AddMethodsLoop(_, _, _)
AddMethodsLoop(t, p, names) ==
    IF names = <<>> THEN t
    ELSE AddMethodsLoop(AddOneMethod(t, p, Head(names)), p, Tail(names))

\* _add_methods_from_native_tensor(tensor_type, syft_type)
AddMethodsFromNativeTensor(t, p) == AddMethodsLoop(t, p, Dir(p))

-----------------------------------------------------------------------------
(* The type hook: _add_registration_to___init__, _hook_properties,         *)
(* _hook_native_tensor (hook.py 80-103, 134-235)                           *)

\* lines 163-166: keep the original constructor under native___init__ (once)
\* and install new___init__, a closure over the hook `h`
AddRegistrationToInit(t, h) ==
    LET t1 == IF ~HasAttr(t, "native___init__")
              THEN SetAttr(t, "native___init__", t["__init__"])
              ELSE t
    IN  SetAttr(t1, "__init__", Obj("new___init__", h, "__init__", 0))

PropertyNames == <<"location", "id_at_location", "id", "owner", "is_wrapper">>

RECURSIVE SetProperties(_, _, _)
SetProperties(t, h, names) ==
    IF names = <<>> THEN t
    ELSE SetProperties(SetAttr(t, Head(names), Obj("property", h, Head(names), 0)),
                       h, Tail(names))

\* lines 179-235: the five properties, native_shape and dim
HookProperties(t, h) ==
    LET t1 == SetProperties(t, h, PropertyNames)
        t2 == SetAttr(t1, "native_shape", t1["shape"])
    IN  SetAttr(t2, "dim", Obj("function", h, "dim", 0))

\* lines 94-101 of _hook_native_tensor.  The call of line 103,
\* _hook_native_methods, is inherited from syft's FrameworkHook and is not
\* part of this file; HookInit counts the calls of _hook_native_tensor.
HookNativeTensor(t, p, h) ==
    AddMethodsFromNativeTensor(HookProperties(AddRegistrationToInit(t, h), h), p)

-----------------------------------------------------------------------------
(* The module sweep: _hook_tensorflow_module (hook.py 105-132)             *)

\* syft.tensorflow.exclude, the exclusion list of the attribute registry
SweepExclude == {"skipme"}

\* _perform_function_overloading(module, func): the original is aliased as
\* native_<func> and the attribute is replaced by an interception wrapper
PerformFunctionOverloading(m, func, h, ser) ==
    SetAttr(SetAttr(m, NativeName(func), m[func]),
            func, Obj("hooked", h, func, ser))

\* The test of line 121 dropped: classes are wrapped as well.
IsClassNameNever(func) == FALSE

\* line 121: func[0].isupper()
IsClassName(func) == IsUpperChar(CharAt(func, 1))

\* The test of line 129 dropped: wrapped functions are wrapped again.
AlreadyOverloadedNever(m, func) == FALSE

\* line 129: "native_" in func or f"native_{func}" in dir(tensorflow_module)
AlreadyOverloaded(m, func) ==
    Contains(func, "native_") \/ NativeName(func) \in DOMAIN m

\* lines 113-130: none of the `continue`s is taken
SweepSelects(m, func) ==
    /\ ~(func \in SweepExclude)
    /\ ~Contains(func, "__")
    /\ ~IsClassName(func)
    /\ ~(CharAt(func, 1) = "_")
    /\ ~AlreadyOverloaded(m, func)

\* One iteration of the inner loop.  st.m is the module's table, st.ser the
\* serial number of the next wrapper object, st.sel the names handed to
\* _perform_function_overloading so far.
SweepOne(st, func, h) ==
    IF SweepSelects(st.m, func)
    THEN [m   |-> PerformFunctionOverloading(st.m, func, h, st.ser),
          ser |-> st.ser + 1,
          sel |-> Append(st.sel, func)]
    ELSE st

RECURSIVE SweepLoop(_, _, _)
SweepLoop(st, names, h) ==
    IF names = <<>> THEN st
    ELSE SweepLoop(SweepOne(st, Head(names), h), Tail(names), h)

\* the inner loop over dir(tensorflow_module), a list built before the loop
SweepModule(m, h, ser) ==
    SweepLoop([m |-> m, ser |-> ser, sel |-> <<>>], Dir(m), h)

RECURSIVE SweepModules(_, _, _, _)
\* the outer loop over tensorflow_modules.items(); acc.mods are the modules'
\* tables, acc.sel the names selected in each module
SweepModules(acc, modnames, h, ser) ==
    IF modnames = <<>> THEN [mods |-> acc.mods, sel |-> acc.sel, ser |-> ser]
    ELSE LET mn == Head(modnames)
             r  == SweepModule(acc.mods[mn], h, ser)
         IN  SweepModules([mods |-> [acc.mods EXCEPT ![mn] = r.m],
                           sel  |-> [acc.sel EXCEPT ![mn] = r.sel]],
                          Tail(modnames), h, r.ser)

\* _hook_tensorflow_module()
HookTensorflowModule(mods, h, ser) ==
    SweepModules([mods |-> mods, sel |-> [mn \in DOMAIN mods |-> <<>>]],
                 SortedNames(DOMAIN mods), h, ser)

-----------------------------------------------------------------------------
(* State of the proxy-method installation on one (T, P) pair               *)

VARIABLES
    tattrs,      \* attribute table of the native type being hooked
    pattrs,      \* attribute table of the proxy (syft) type
    tattrs0,     \* the native type's table before any installation
    runs         \* number of installations performed on the pair

mvars == <<tattrs, pattrs, tattrs0, runs>>

\* Names an unhooked native tensor type may define, and names the proxy
\* type may define.  Both hold excluded and non-excluded names, and names
\* only one of the two defines.
NativeNames == {"__init__", "__hash__", "shape", "numpy", "get_shape"}
ProxyNames  == {"__init__", "__hash__", "shape", "send", "numpy", "__repr__"}

MaxRuns == 3

NativeTable(T, S) == [n \in S |-> Obj("native", T, n, 0)]
ProxyTable(P, S)  == [n \in S |-> Obj("proxy", P, n, 0)]

InitM ==
    /\ \E S \in SUBSET NativeNames : tattrs = NativeTable("Tensor", S)
    /\ \E S \in SUBSET ProxyNames : pattrs = ProxyTable("TensorFlowTensor", S)
    /\ tattrs0 = tattrs
    /\ runs = 0

IdleM ==
    /\ tattrs = NativeTable("Tensor", {})
    /\ pattrs = ProxyTable("TensorFlowTensor", {})
    /\ tattrs0 = tattrs
    /\ runs = 0

\* a call of TensorFlowHook._add_methods_from_native_tensor(T, P)
AddMethods ==
    /\ runs < MaxRuns
    /\ tattrs' = AddMethodsFromNativeTensor(tattrs, pattrs)
    /\ runs' = runs + 1
    /\ UNCHANGED <<pattrs, tattrs0>>

-----------------------------------------------------------------------------
(* State of the installation: TensorFlowHook.__init__ (hook.py 19-78)      *)

VARIABLES
    marked,        \* the library objects that carry the attribute tf_hooked
    nhooks,        \* number of TensorFlowHook objects constructed
    hookLW,        \* hook -> its local_worker attribute
    syftLW,        \* syft.local_worker
    syftHook,      \* syft.hook
    workerHook,    \* worker -> its hook attribute
    typeAttrs,     \* native type -> attribute table (Tensor, tf.Variable)
    modAttrs,      \* registered module -> attribute table
    typeHooks,     \* native type -> calls of _hook_native_tensor on it
    pointerHooks,  \* native type -> calls of _hook_pointer_tensor_methods
    sweeps,        \* calls of _hook_tensorflow_module made by __init__
    resweeps,      \* direct calls of _hook_tensorflow_module
    warnings,      \* warnings logged
    nextSer,       \* serial number of the next wrapper object
    selected,      \* module -> names the last sweep handed to overloading
    preMods,       \* the modules' tables before the last sweep
    overloads,     \* every <<module, name>> ever handed to overloading
    last           \* the last operation: its arguments and its outcome

hvars == <<marked, nhooks, hookLW, syftLW, syftHook, workerHook, typeAttrs,
           modAttrs, typeHooks, pointerHooks, sweeps, resweeps, warnings,
           nextSer, selected, preMods, overloads>>

MaxHooks == 2
MaxSweeps == 2

\* objects passed as the `tensorflow` argument
Libs == {"tf", "tf_alias"}
\* values passed as local_worker
WorkerArgs == {"None", "alice"}

Types == {"Tensor", "Variable"}
ProxyOf(T) == IF T = "Tensor" THEN "TensorFlowTensor" ELSE "TensorFlowVariable"

TypeNatives == {"__init__", "__hash__", "shape", "numpy"}
ProxyAttrs(T) ==
    ProxyTable(ProxyOf(T), {"__init__", "__repr__", "shape", "send", "numpy"})

\* The module of the sweep's example, and the names a second registered
\* module may expose before it is hooked.
SampleNames == {"foo", "Bar", "_baz", "__qux__"}
ModuleNames == {"add", "native_add", "skipme", "xnative_y", "a__b", "zeros"}
ModuleTable(mn, S) == [n \in S |-> Obj("native", mn, n, 0)]

HookId(n) == "h" \o ToString(n)

\* No operation yet.  op names the operation; lib, lw, hook and skipped
\* describe a construction of the hook; inst, kw, args, native, pops, ret and
\* err an operation on a tensor instance or on a function: the keyword and
\* positional arguments, the call made to the original constructor, the
\* number of ids popped before, the value returned and the error raised.
NoOp ==
    [op |-> "none", lib |-> "", lw |-> "", hook |-> "", skipped |-> FALSE,
     inst |-> "", kw |-> <<>>, args |-> <<>>, native |-> <<>>, pops |-> 0,
     ret |-> "", err |-> "none"]

InitHFrom(SecondModules) ==
    /\ marked = {}
    /\ nhooks = 0
    /\ hookLW = [h \in {} |-> ""]
    /\ syftLW = "None"
    /\ syftHook = "None"
    /\ workerHook = [w \in {} |-> ""]
    /\ typeAttrs = [T \in Types |-> NativeTable(T, TypeNatives)]
    /\ \E S \in SecondModules :
          modAttrs = [mn \in {"sample", "tensorflow"} |->
                         IF mn = "sample" THEN ModuleTable(mn, SampleNames)
                         ELSE ModuleTable(mn, S)]
    /\ typeHooks = [T \in Types |-> 0]
    /\ pointerHooks = [T \in Types |-> 0]
    /\ sweeps = 0
    /\ resweeps = 0
    /\ warnings = 0
    /\ nextSer = 1
    /\ selected = [mn \in DOMAIN modAttrs |-> <<>>]
    /\ preMods = modAttrs
    /\ overloads = <<>>
    /\ last = NoOp

InitH == InitHFrom(SUBSET ModuleNames)

IdleH == InitHFrom({{"add"}})

\* The marker test that never finds the marker.
AlreadyHookedNever(lib) == FALSE

\* line 37: hasattr(tensorflow, "tf_hooked")
AlreadyHooked(lib) == lib \in marked

\* the <<module, name>> pairs of one sweep, in the order of the calls
RECURSIVE SelectedPairs(_, _)
SelectedPairs(sel, modnames) ==
    IF modnames = <<>> THEN <<>>
    ELSE [i \in 1..Len(sel[Head(modnames)]) |->
             <<Head(modnames), sel[Head(modnames)][i]>>]
         \o SelectedPairs(sel, Tail(modnames))

\* TensorFlowHook(tensorflow = lib, local_worker = lw).  The is_client
\* argument is only handed to the VirtualWorker constructor.
HookInit(lib, lw) ==
    /\ nhooks < MaxHooks
    /\ LET h == HookId(nhooks + 1) IN
       /\ nhooks' = nhooks + 1
       /\ syftHook' = h
       /\ IF AlreadyHooked(lib)
          THEN /\ warnings' = warnings + 1
               /\ hookLW' = SetAttr(hookLW, h, syftLW)
               /\ last' = [NoOp EXCEPT !.op = "init", !.lib = lib, !.lw = lw,
                                        !.hook = h, !.skipped = TRUE]
               /\ UNCHANGED <<marked, syftLW, workerHook, typeAttrs, modAttrs,
                              typeHooks, pointerHooks, sweeps, resweeps,
                              nextSer, selected, preMods, overloads>>
          ELSE LET worker == IF lw = "None" THEN "me@" \o h ELSE lw
                   r == HookTensorflowModule(modAttrs, h, nextSer)
               IN  /\ marked' = marked \cup {lib}
                   /\ hookLW' = SetAttr(hookLW, h, worker)
                   /\ workerHook' = SetAttr(workerHook, worker, h)
                   /\ typeAttrs' = [T \in Types |->
                         HookNativeTensor(typeAttrs[T], ProxyAttrs(T), h)]
                   /\ typeHooks' = [T \in Types |-> typeHooks[T] + 1]
                   /\ pointerHooks' = [T \in Types |-> pointerHooks[T] + 1]
                   /\ modAttrs' = r.mods
                   /\ nextSer' = r.ser
                   /\ selected' = r.sel
                   /\ preMods' = modAttrs
                   /\ overloads' = overloads \o
                         SelectedPairs(r.sel, SortedNames(DOMAIN modAttrs))
                   /\ sweeps' = sweeps + 1
                   /\ syftLW' = worker
                   /\ last' = [NoOp EXCEPT !.op = "init", !.lib = lib,
                                            !.lw = lw, !.hook = h]
                   /\ UNCHANGED <<resweeps, warnings>>

\* a later call of hook._hook_tensorflow_module() on a constructed hook
ReSweep(n) ==
    /\ n \in 1..nhooks
    /\ resweeps < MaxSweeps
    /\ LET h == HookId(n)
           r == HookTensorflowModule(modAttrs, h, nextSer)
       IN  /\ modAttrs' = r.mods
           /\ nextSer' = r.ser
           /\ selected' = r.sel
           /\ preMods' = modAttrs
           /\ overloads' = overloads \o
                 SelectedPairs(r.sel, SortedNames(DOMAIN modAttrs))
           /\ resweeps' = resweeps + 1
           /\ last' = [NoOp EXCEPT !.op = "sweep", !.hook = h]
           /\ UNCHANGED <<marked, nhooks, hookLW, syftLW, syftHook,
                          workerHook, typeAttrs, typeHooks, pointerHooks,
                          sweeps, warnings>>

-----------------------------------------------------------------------------
(* Tensor instances: new___init__ (hook.py 150-161) and the properties     *)
(* installed by _hook_properties (hook.py 179-235)                         *)

VARIABLES
    born,        \* the instances that exist
    bypassed,    \* those created by a path that did not run __init__
    idict,       \* instance -> its attributes (the instance's __dict__)
    popped       \* the ids syft.ID_PROVIDER.pop() has returned, in order

ivars == <<born, bypassed, idict, popped>>

Insts == {"t1", "t2"}
InstType(i) == IF i = "t1" THEN "Tensor" ELSE "Variable"

\* syft.ID_PROVIDER.pop(): the next unique id
Pop(ps) == [id |-> Len(ps) + 1, popped |-> Append(ps, Len(ps) + 1)]

\* a pointer held as the child of a wrapper
PointerChild == [location |-> "bob", id_at_location |-> 77]

\* The backing-field test that always asks for initialisation.
NeedsInitAlways(d, field) == TRUE

\* The backing-field test with its `not` dropped.
NeedsInitInverted(d, field) == HasAttr(d, field)

\* lines 193, 206, 219: `if not hasattr(self, "_syft_id")`
NeedsInit(d, field) == ~HasAttr(d, field)

\* lines 192-195: the getter of id
IdGet(d, ps) ==
    IF NeedsInit(d, "_syft_id")
    THEN LET p == Pop(ps)
         IN  [d |-> SetAttr(d, "_syft_id", p.id), popped |-> p.popped,
              ret |-> p.id]
    ELSE [d |-> d, popped |-> ps, ret |-> d["_syft_id"]]

\* lines 197-200: the setter of id
IdSet(d, v) == SetAttr(d, "_syft_id", v)

\* lines 205-208: the getter of owner; lw is hook_self.local_worker
OwnerGet(d, lw) ==
    IF NeedsInit(d, "_owner")
    THEN [d |-> SetAttr(d, "_owner", lw), ret |-> lw]
    ELSE [d |-> d, ret |-> d["_owner"]]

\* lines 210-213
OwnerSet(d, v) == SetAttr(d, "_owner", v)

\* lines 218-221
IsWrapperGet(d) ==
    IF NeedsInit(d, "_is_wrapper")
    THEN [d |-> SetAttr(d, "_is_wrapper", FALSE), ret |-> FALSE]
    ELSE [d |-> d, ret |-> d["_is_wrapper"]]

\* lines 223-226
IsWrapperSet(d, v) == SetAttr(d, "_is_wrapper", v)

\* lines 180-181, 186-187: self.child.<name>; the attribute lookup of
\* `child` fails on an instance that has none
ChildGet(d, name) ==
    IF HasAttr(d, "child")
    THEN [ret |-> d["child"][name], err |-> "none"]
    ELSE [ret |-> "", err |-> "AttributeError"]

\* lines 232-233: len(self.shape)
Dim(shape) == Len(shape)

\* The keyword arguments handed on with nothing taken out.
NativeKwAll(kw) == kw

\* line 150: owner, id and register are named parameters of new___init__,
\* **kwargs is the rest
NativeKw(kw) ==
    [k \in (DOMAIN kw) \ {"owner", "id", "register"} |-> kw[k]]

\* line 154: hook_self.local_worker, read when the constructor runs
DefaultOwner(h) == hookLW[h]

\* lines 150-161: new___init__(cls, *args, owner, id, register, **kwargs) of
\* the closure over hook h, on an instance with attributes d of a type with
\* table t.  A keyword that is missing from kw has its default, None; id=None
\* is therefore a missing "id", and owner=None is also passed as "None".
NewInit(d, t, h, kw, args, ps) ==
    LET call  == [f |-> t["native___init__"], args |-> args,
                  kw |-> NativeKw(kw)]
        owner == IF "owner" \in DOMAIN kw /\ kw["owner"] # "None"
                 THEN kw["owner"] ELSE DefaultOwner(h)
        p     == IF "id" \in DOMAIN kw
                 THEN [id |-> kw["id"], popped |-> ps]
                 ELSE Pop(ps)
    IN  [d |-> IsWrapperSet(OwnerSet(IdSet(d, p.id), owner), FALSE),
         popped |-> p.popped,
         native |-> call]

\* the type's constructor and properties are the hook's
Hooked(T) ==
    /\ typeAttrs[T]["__init__"].kind = "new___init__"
    /\ HasAttr(typeAttrs[T], "id")
    /\ typeAttrs[T]["id"].kind = "property"

\* the hook whose closures the type's constructor and properties are
HookOf(T) == typeAttrs[T]["__init__"].of

\* keyword and positional arguments of a construction
Opt(k, s) == IF s = <<>> THEN <<>> ELSE (k :> s[1])
\* every choice of owner=, id=, register= and one further keyword; an
\* argument that is not given is an empty choice
KwArgs ==
    {Opt("owner", o) @@ Opt("id", i) @@ Opt("register", r) @@ Opt("dtype", dt) :
        o \in {<<>>, <<"None">>, <<"bob">>}, i \in {<<>>, <<1>>},
        r \in {<<>>, <<FALSE>>}, dt \in {<<>>, <<"float32">>}}
PosArgs == {<<>>, <<"value">>}

InitI ==
    /\ born = {}
    /\ bypassed = {}
    /\ idict = [i \in Insts |-> [n \in {} |-> 0]]
    /\ popped = <<>>

\* T(*args, **kw) on a hooked type: T.__init__ is new___init__
Construct(i, kw, args) ==
    /\ i \notin born
    /\ Hooked(InstType(i))
    /\ LET T == InstType(i)
           r == NewInit(idict[i], typeAttrs[T], HookOf(T), kw, args, popped)
       IN  /\ idict' = [idict EXCEPT ![i] = r.d]
           /\ popped' = r.popped
           /\ last' = [NoOp EXCEPT !.op = "construct", !.inst = i, !.kw = kw,
                                   !.args = args, !.native = r.native,
                                   !.pops = Len(popped)]
    /\ born' = born \cup {i}
    /\ UNCHANGED bypassed

\* an instance made by an internal constructor of the library: no __init__
Bypass(i) ==
    /\ i \notin born
    /\ Hooked(InstType(i))
    /\ born' = born \cup {i}
    /\ bypassed' = bypassed \cup {i}
    /\ last' = [NoOp EXCEPT !.op = "bypass", !.inst = i, !.pops = Len(popped)]
    /\ UNCHANGED <<idict, popped>>

Live(i) == i \in born /\ Hooked(InstType(i))

\* instance.id
ReadId(i) ==
    /\ Live(i)
    /\ LET r == IdGet(idict[i], popped)
       IN  /\ idict' = [idict EXCEPT ![i] = r.d]
           /\ popped' = r.popped
           /\ last' = [NoOp EXCEPT !.op = "read_id", !.inst = i,
                                   !.ret = r.ret, !.pops = Len(popped)]
    /\ UNCHANGED <<born, bypassed>>

\* instance.id = v
WriteId(i, v) ==
    /\ Live(i)
    /\ idict' = [idict EXCEPT ![i] = IdSet(@, v)]
    /\ last' = [NoOp EXCEPT !.op = "write_id", !.inst = i, !.ret = v,
                            !.pops = Len(popped)]
    /\ UNCHANGED <<born, bypassed, popped>>

\* instance.owner
ReadOwner(i) ==
    /\ Live(i)
    /\ LET r == OwnerGet(idict[i], DefaultOwner(HookOf(InstType(i))))
       IN  /\ idict' = [idict EXCEPT ![i] = r.d]
           /\ last' = [NoOp EXCEPT !.op = "read_owner", !.inst = i,
                                   !.ret = r.ret, !.pops = Len(popped)]
    /\ UNCHANGED <<born, bypassed, popped>>

\* instance.owner = w
WriteOwner(i, w) ==
    /\ Live(i)
    /\ idict' = [idict EXCEPT ![i] = OwnerSet(@, w)]
    /\ last' = [NoOp EXCEPT !.op = "write_owner", !.inst = i, !.ret = w,
                            !.pops = Len(popped)]
    /\ UNCHANGED <<born, bypassed, popped>>

\* instance.is_wrapper
ReadIsWrapper(i) ==
    /\ Live(i)
    /\ LET r == IsWrapperGet(idict[i])
       IN  /\ idict' = [idict EXCEPT ![i] = r.d]
           /\ last' = [NoOp EXCEPT !.op = "read_is_wrapper", !.inst = i,
                                   !.ret = r.ret, !.pops = Len(popped)]
    /\ UNCHANGED <<born, bypassed, popped>>

\* instance.is_wrapper = b
WriteIsWrapper(i, b) ==
    /\ Live(i)
    /\ idict' = [idict EXCEPT ![i] = IsWrapperSet(@, b)]
    /\ last' = [NoOp EXCEPT !.op = "write_is_wrapper", !.inst = i, !.ret = b,
                            !.pops = Len(popped)]
    /\ UNCHANGED <<born, bypassed, popped>>

\* instance.child = <a pointer>
AttachChild(i) ==
    /\ Live(i)
    /\ idict' = [idict EXCEPT ![i] = SetAttr(@, "child", PointerChild)]
    /\ last' = [NoOp EXCEPT !.op = "attach_child", !.inst = i,
                            !.pops = Len(popped)]
    /\ UNCHANGED <<born, bypassed, popped>>

\* instance.location and instance.id_at_location
ReadChildAttr(i, name) ==
    /\ Live(i)
    /\ LET r == ChildGet(idict[i], name)
       IN  last' = [NoOp EXCEPT !.op = "read_" \o name, !.inst = i,
                                !.ret = r.ret, !.err = r.err,
                                !.pops = Len(popped)]
    /\ UNCHANGED ivars

\* instance.dim() on an instance whose shape is `shape`
ReadDim(i, shape) ==
    /\ Live(i)
    /\ last' = [NoOp EXCEPT !.op = "dim", !.inst = i, !.args = shape,
                            !.ret = Dim(shape), !.pops = Len(popped)]
    /\ UNCHANGED ivars

-----------------------------------------------------------------------------
(* _get_hooked_func (hook.py 237-254)                                      *)

\* ".".join(name.split(".")[:-1]): what precedes the last dot
SubmoduleOf(name) ==
    LET dots == {i \in 1..Len(name) : CharAt(name, i) = "."}
    IN  IF dots = {} THEN ""
        ELSE SubSeq(name, 1, (CHOOSE i \in dots : \A j \in dots : j <= i) - 1)

\* The error of an emptiness check that fails: `assert names`, or, when
\* Python runs with assertions off, the names[0] that follows it.
EmptyNamesError(optimized) ==
    IF optimized THEN "IndexError" ELSE "AssertionError"

\* The emptiness check left out, with a default for an empty annotation.
CheckNamesLenient(names, optimized) == "none"

\* lines 242, 250: `assert attr._tf_api_names`
CheckNames(names, optimized) ==
    IF names = <<>> THEN EmptyNamesError(optimized) ELSE "none"

\* lines 241-252.  attr.tf and attr.keras hold the annotations
\* _tf_api_names and _keras_api_names: <<>> when the attribute is absent,
\* <<names>> when it is present.  attr.module is attr.__module__.  The
\* result is the module path and the error raised, if any; line 254 hands
\* the function on to syft's FrameworkHook.
GetHookedFunc(attr, optimized) ==
    LET e1 == IF attr.tf = <<>> THEN "none"
              ELSE CheckNames(attr.tf[1], optimized)
        m1 == IF attr.tf = <<>> \/ attr.tf[1] = <<>> THEN attr.module
              ELSE LET sub == SubmoduleOf(attr.tf[1][1])
                   IN  IF sub # "" THEN "tensorflow." \o sub ELSE "tensorflow"
        e2 == IF attr.keras = <<>> THEN "none"
              ELSE CheckNames(attr.keras[1], optimized)
        m2 == IF attr.keras = <<>> \/ attr.keras[1] = <<>> THEN m1
              ELSE "tensorflow." \o SubmoduleOf(attr.keras[1][1])
    IN  IF e1 # "none" THEN [module |-> attr.module, err |-> e1]
        ELSE IF e2 # "none" THEN [module |-> m1, err |-> e2]
        ELSE [module |-> m2, err |-> "none"]

\* candidate functions: each annotation absent, empty, or naming the
\* function with and without a submodule, alone and together
TfNames == {<<>>, << <<>> >>, << <<"add">> >>, << <<"math.add", "add">> >>}
KerasNames == {<<>>, << <<>> >>, << <<"keras.layers.Dense">> >>, << <<"Dense">> >>}
FuncAttrs ==
    {[tf |-> a, keras |-> b, module |-> "tensorflow.python.ops"] :
        a \in TfNames, b \in {<<>>}}
    \cup {[tf |-> a, keras |-> b, module |-> "tensorflow.python.ops"] :
        a \in {<<>>, << <<"math.add", "add">> >>}, b \in KerasNames}

\* TensorFlowHook._get_hooked_func(attr)
GetHookedFuncCall(attr, optimized) ==
    /\ nhooks >= 1
    /\ LET r == GetHookedFunc(attr, optimized)
       IN  last' = [NoOp EXCEPT !.op = "get_hooked_func", !.args = attr,
                                !.ret = r.module, !.err = r.err]

-----------------------------------------------------------------------------
(* Two threads reading a lazily initialised property of one instance.      *)
(* The getter's test, the pop, the store and the final read of the backing *)
(* field are separate steps.                                               *)

VARIABLES
    rdict,    \* the attributes of the shared instance
    rpc,      \* thread -> where it is in the getter
    rprop,    \* thread -> the property it reads ("id" or "owner")
    rloc,     \* thread -> the value it is about to store (<<>>: none)
    rret      \* thread -> the value its read returned (<<>>: none yet)

rvars == <<rdict, rpc, rprop, rloc, rret>>

Threads == {"a", "b"}

Backing(prop) == IF prop = "id" THEN "_syft_id" ELSE "_owner"

InitR ==
    /\ rdict = [n \in {} |-> 0]
    /\ rpc = [t \in Threads |-> "idle"]
    /\ rprop = [t \in Threads |-> "id"]
    /\ rloc = [t \in Threads |-> <<>>]
    /\ rret = [t \in Threads |-> <<>>]

\* the thread evaluates instance.<prop>: the getter is entered
Enter(t, prop) ==
    /\ Hooked("Tensor")
    /\ rpc[t] = "idle"
    /\ rpc' = [rpc EXCEPT ![t] = "test"]
    /\ rprop' = [rprop EXCEPT ![t] = prop]
    /\ UNCHANGED <<rdict, rloc, rret, popped>>

\* `if not hasattr(self, <backing field>)`
Test(t) ==
    /\ rpc[t] = "test"
    /\ rpc' = [rpc EXCEPT ![t] =
                  IF NeedsInit(rdict, Backing(rprop[t])) THEN "fetch"
                  ELSE "return"]
    /\ UNCHANGED <<rdict, rprop, rloc, rret, popped>>

\* the right-hand side: syft.ID_PROVIDER.pop() or hook_self.local_worker
Fetch(t) ==
    /\ rpc[t] = "fetch"
    /\ IF rprop[t] = "id"
       THEN /\ rloc' = [rloc EXCEPT ![t] = <<Pop(popped).id>>]
            /\ popped' = Pop(popped).popped
       ELSE /\ rloc' = [rloc EXCEPT ![t] = <<DefaultOwner(HookOf("Tensor"))>>]
            /\ UNCHANGED popped
    /\ rpc' = [rpc EXCEPT ![t] = "store"]
    /\ UNCHANGED <<rdict, rprop, rret>>

\* the assignment to the backing field
Store(t) ==
    /\ rpc[t] = "store"
    /\ rdict' = SetAttr(rdict, Backing(rprop[t]), rloc[t][1])
    /\ rpc' = [rpc EXCEPT ![t] = "return"]
    /\ UNCHANGED <<rprop, rloc, rret, popped>>

\* `return self.<backing field>`; on a missing field the read raises
\* AttributeError and returns nothing
Return(t) ==
    /\ rpc[t] = "return"
    /\ IF HasAttr(rdict, Backing(rprop[t]))
       THEN /\ rret' = [rret EXCEPT ![t] = <<rdict[Backing(rprop[t])]>>]
            /\ rpc' = [rpc EXCEPT ![t] = "done"]
       ELSE /\ rret' = rret
            /\ rpc' = [rpc EXCEPT ![t] = "failed"]
    /\ UNCHANGED <<rdict, rprop, rloc, popped>>

-----------------------------------------------------------------------------
(* Specifications                                                          *)

vars == <<mvars, hvars, last, ivars, rvars>>

\* the proxy-method installation on every pair of a native and a proxy type
InitMethods == InitM /\ IdleH /\ InitI /\ InitR
NextMethods == AddMethods /\ UNCHANGED <<hvars, last, ivars, rvars>>
SpecMethods == InitMethods /\ [][NextMethods]_vars

\* constructions of the hook and later sweeps
InitHook == IdleM /\ InitH /\ InitI /\ InitR
NextHook ==
    \/ \E lib \in Libs, lw \in WorkerArgs :
          HookInit(lib, lw) /\ UNCHANGED <<mvars, ivars, rvars>>
    \/ \E n \in 1..MaxHooks :
          ReSweep(n) /\ UNCHANGED <<mvars, ivars, rvars>>
Spec == InitHook /\ [][NextHook]_vars

\* tensor instances of the types one hook has hooked
InstOp(i, Kws, Args) ==
    \/ \E kw \in Kws, args \in Args : Construct(i, kw, args)
    \/ Bypass(i)
    \/ ReadId(i)
    \/ \E v \in {9} : WriteId(i, v)
    \/ ReadOwner(i)
    \/ \E w \in {"bob"} : WriteOwner(i, w)
    \/ ReadIsWrapper(i)
    \/ \E b \in BOOLEAN : WriteIsWrapper(i, b)

\* the child of a wrapper, the delegating properties and dim
ChildOp(i) ==
    \/ AttachChild(i)
    \/ \E name \in {"location", "id_at_location"} : ReadChildAttr(i, name)
    \/ \E shape \in {<<>>, <<2, 3>>} : ReadDim(i, shape)

InitInst == IdleM /\ IdleH /\ InitI /\ InitR
NextInst ==
    \/ /\ nhooks = 0
       /\ \E lib \in Libs, lw \in WorkerArgs : HookInit(lib, lw)
       /\ UNCHANGED <<mvars, ivars, rvars>>
    \/ \E i \in Insts :
          InstOp(i, KwArgs, PosArgs) /\ UNCHANGED <<mvars, hvars, rvars>>
SpecInst == InitInst /\ [][NextInst]_vars

\* every operation of the hook, on one instance built with no keyword
\* argument or with an owner and an id
ErrKwArgs == {<<>>, Opt("owner", <<"bob">>) @@ Opt("id", <<1>>)}

NextErr ==
    \/ \E lib \in Libs : HookInit(lib, "None") /\ UNCHANGED <<mvars, ivars, rvars>>
    \/ \E n \in 1..MaxHooks : ReSweep(n) /\ UNCHANGED <<mvars, ivars, rvars>>
    \/ InstOp("t1", ErrKwArgs, {<<>>}) /\ UNCHANGED <<mvars, hvars, rvars>>
    \/ ChildOp("t1") /\ UNCHANGED <<mvars, hvars, rvars>>
    \/ \E attr \in FuncAttrs, optimized \in BOOLEAN :
          GetHookedFuncCall(attr, optimized)
              /\ UNCHANGED <<mvars, hvars, ivars, rvars>>
SpecErr == InitInst /\ [][NextErr]_vars

\* two threads on one instance of a hooked type
ThreadStep(t) ==
    \/ \E prop \in {"id", "owner"} : Enter(t, prop)
    \/ Test(t)
    \/ Fetch(t)
    \/ Store(t)
    \/ Return(t)

NextRace ==
    \/ /\ nhooks = 0
       /\ \E lib \in Libs, lw \in WorkerArgs : HookInit(lib, lw)
       /\ UNCHANGED <<mvars, ivars, rvars>>
    \/ \E t \in Threads :
          ThreadStep(t) /\ UNCHANGED <<mvars, hvars, last, born, bypassed, idict>>
SpecRace == InitInst /\ [][NextRace]_vars

-----------------------------------------------------------------------------
(* Properties                                                              *)

Range(seq) == {seq[j] : j \in 1..Len(seq)}

NoDuplicates(seq) == \A j, k \in 1..Len(seq) : seq[j] = seq[k] => j = k

\* C1: after a construction through new___init__ the instance's id is the
\* id given, or else an id popped from the provider during the construction
\* that differs from every id popped before; its owner is the owner given,
\* or else the hook's local worker; is_wrapper is false; and the original
\* constructor was called with the arguments other than owner, id, register.
C1_IdentityBootstrap ==
    last.op = "construct" =>
        LET i  == last.inst
            d  == idict[i]
            kw == last.kw
            n  == Len(popped)
        IN  /\ HasAttr(d, "_syft_id") /\ HasAttr(d, "_owner")
            /\ HasAttr(d, "_is_wrapper")
            /\ IF "id" \in DOMAIN kw
               THEN d["_syft_id"] = kw["id"] /\ n = last.pops
               ELSE /\ n = last.pops + 1
                    /\ d["_syft_id"] = popped[n]
                    /\ \A j \in 1..(n - 1) : popped[j] # d["_syft_id"]
            /\ d["_owner"] =
                  IF "owner" \in DOMAIN kw /\ kw["owner"] # "None"
                  THEN kw["owner"] ELSE hookLW["h1"]
            /\ d["_is_wrapper"] = FALSE
            /\ last.native.f = Obj("native", InstType(i), "__init__", 0)
            /\ last.native.args = last.args
            /\ DOMAIN last.native.kw = (DOMAIN kw) \ {"owner", "id", "register"}
            /\ \A k \in DOMAIN last.native.kw : last.native.kw[k] = kw[k]

\* a second instance built with register= and dtype= and neither id nor owner
C1_Witness ==
    /\ last.op = "construct"
    /\ DOMAIN last.kw = {"register", "dtype"}
    /\ last.args = <<"value">>
    /\ Len(popped) = 2
    /\ idict[last.inst]["_syft_id"] = popped[2]

\* the non-excluded attribute names of the proxy type
Installed == {n \in DOMAIN pattrs : n \notin exclude}

\* C2: after one installation on an unhooked type, every non-excluded proxy
\* attribute is bound on the type to the proxy's object, every such name the
\* type defined before is aliased as native_<name> to the pre-hook object,
\* and every other attribute of the type is what it was.
C2_OneInstall ==
    runs = 1 =>
        /\ \A n \in Installed : HasAttr(tattrs, n) /\ tattrs[n] = pattrs[n]
        /\ \A n \in Installed :
              HasAttr(tattrs0, n) =>
                  /\ HasAttr(tattrs, NativeName(n))
                  /\ tattrs[NativeName(n)] = tattrs0[n]
        /\ \A n \in DOMAIN tattrs0 :
              (n \in exclude \/ n \notin DOMAIN pattrs) =>
                  HasAttr(tattrs, n) /\ tattrs[n] = tattrs0[n]
        /\ DOMAIN tattrs =
              (DOMAIN tattrs0) \cup Installed
                  \cup {NativeName(n) : n \in Installed \cap DOMAIN tattrs0}

C2_Witness ==
    /\ runs = 1
    /\ "shape" \in Installed /\ HasAttr(tattrs0, "shape")
    /\ "send" \in Installed
    /\ HasAttr(tattrs0, "__hash__") /\ HasAttr(pattrs, "__hash__")
    /\ HasAttr(tattrs0, "get_shape")

\* C3: after any number of installations the alias native_<name> of a name
\* the type originally defined is the original native object.
C3_AliasKeepsNative ==
    runs >= 1 =>
        \A n \in Installed :
            HasAttr(tattrs0, n) =>
                /\ HasAttr(tattrs, NativeName(n))
                /\ tattrs[NativeName(n)] = tattrs0[n]

\* C4: a construction of the hook with a library object that carries the
\* marker logs a warning, takes syft.local_worker as its local worker and
\* changes no type, no module and not syft.local_worker; a construction with
\* an unmarked object marks it and runs the type hook, the pointer hook and
\* the module sweep once each.
C4_GuardedInstall ==
    [][ nhooks' = nhooks + 1 =>
          IF last'.lib \in marked
          THEN /\ last'.skipped
               /\ warnings' = warnings + 1
               /\ hookLW'[last'.hook] = syftLW
               /\ syftLW' = syftLW
               /\ UNCHANGED <<typeAttrs, modAttrs, typeHooks, pointerHooks,
                              sweeps, marked, overloads>>
          ELSE /\ ~last'.skipped
               /\ warnings' = warnings
               /\ marked' = marked \cup {last'.lib}
               /\ \A T \in Types : /\ typeHooks'[T] = typeHooks[T] + 1
                                   /\ pointerHooks'[T] = pointerHooks[T] + 1
               /\ sweeps' = sweeps + 1
               /\ syftLW' = hookLW'[last'.hook]
      ]_vars

\* a second construction with the same object and another local worker
C4_Witness ==
    /\ last.op = "init" /\ last.skipped
    /\ last.lib = "tf" /\ last.lw = "alice"
    /\ syftLW = "me@h1"
    /\ hookLW[last.hook] = syftLW
    /\ typeHooks["Tensor"] = 1 /\ sweeps = 1 /\ warnings = 1

\* C5: over any sequence of constructions of the hook, whatever object is
\* passed, the native types and the registered modules are hooked at most
\* once.
C5_HookedAtMostOnce ==
    /\ \A T \in Types : typeHooks[T] <= 1 /\ pointerHooks[T] <= 1
    /\ sweeps <= 1

\* the condition under which the sweep hands a name on, on the module as it
\* was before the sweep
Selectable(m, n) ==
    /\ n \notin SweepExclude
    /\ ~Contains(n, "__")
    /\ CharAt(n, 1) \notin UpperChars
    /\ CharAt(n, 1) # "_"
    /\ ~Contains(n, "native_")
    /\ NativeName(n) \notin DOMAIN m

\* C6: a sweep hands a name of a registered module to the overloading if
\* and only if the name is not excluded, holds no "__", starts with neither
\* an uppercase letter nor "_", holds no "native_" and has no native_<name>
\* sibling; of foo, Bar, _baz and __qux__ it selects exactly foo.
C6_SweepSelection ==
    (last.op = "sweep" \/ (last.op = "init" /\ ~last.skipped)) =>
        \A mn \in DOMAIN modAttrs :
            /\ Range(selected[mn]) =
                  {n \in DOMAIN preMods[mn] : Selectable(preMods[mn], n)}
            /\ NoDuplicates(selected[mn])
            /\ DOMAIN preMods[mn] = SampleNames =>
                  Range(selected[mn]) = {"foo"}

\* the first sweep, over the example module and a module holding every name
C6_Witness ==
    /\ last.op = "init" /\ ~last.skipped /\ sweeps = 1
    /\ DOMAIN preMods["sample"] = SampleNames
    /\ selected["sample"] = <<"foo">>
    /\ DOMAIN preMods["tensorflow"] = ModuleNames
    /\ selected["tensorflow"] = <<"zeros">>

\* C7: a function that has a native_<name> sibling is left as it is by every
\* later step, and so is the sibling; no name is handed to the overloading
\* twice, none that holds "native_", and the sibling of a wrapped function is
\* the module's original function.
C7_ReSweepSkips ==
    /\ [](/\ NoDuplicates(overloads)
          /\ \A j \in 1..Len(overloads) :
                LET mn == overloads[j][1]
                    n  == overloads[j][2]
                IN  /\ ~Contains(n, "native_")
                    /\ modAttrs[mn][n].kind = "hooked"
                    /\ modAttrs[mn][NativeName(n)] = Obj("native", mn, n, 0))
    /\ [][ \A mn \in DOMAIN modAttrs : \A n \in DOMAIN modAttrs[mn] :
              HasAttr(modAttrs[mn], NativeName(n)) =>
                  /\ modAttrs'[mn][n] = modAttrs[mn][n]
                  /\ modAttrs'[mn][NativeName(n)] = modAttrs[mn][NativeName(n)]
         ]_vars

\* a later sweep that selects nothing, after the first wrapped foo
C7_Witness ==
    /\ last.op = "sweep" /\ resweeps >= 1
    /\ <<"sample", "foo">> \in Range(overloads)
    /\ \A mn \in DOMAIN modAttrs : selected[mn] = <<>>
    /\ modAttrs["sample"]["foo"].ser = 1

EmptyAnnotation(attr) ==
    \/ attr.tf # <<>> /\ attr.tf[1] = <<>>
    \/ attr.keras # <<>> /\ attr.keras[1] = <<>>

C9_LazyIdentity ==
    [][ \A i \in bypassed :
          /\ last'.inst = i => last'.err = "none"
          /\ (last'.inst = i /\ last'.op = "read_id") =>
                IF HasAttr(idict[i], "_syft_id")
                THEN /\ last'.ret = idict[i]["_syft_id"]
                     /\ popped' = popped
                     /\ idict'[i] = idict[i]
                ELSE /\ Len(popped') = Len(popped) + 1
                     /\ last'.ret = popped'[Len(popped')]
                     /\ last'.ret \notin Range(popped)
                     /\ idict'[i] = SetAttr(idict[i], "_syft_id", last'.ret)
          /\ (HasAttr(idict[i], "_syft_id")
                 /\ ~(last'.inst = i /\ last'.op = "write_id")) =>
                idict'[i]["_syft_id"] = idict[i]["_syft_id"]
          /\ (last'.inst = i /\ last'.op = "read_owner") =>
                IF HasAttr(idict[i], "_owner")
                THEN last'.ret = idict[i]["_owner"] /\ idict'[i] = idict[i]
                ELSE /\ last'.ret = hookLW["h1"]
                     /\ idict'[i] = SetAttr(idict[i], "_owner", hookLW["h1"])
          /\ (last'.inst = i /\ last'.op = "read_is_wrapper") =>
                IF HasAttr(idict[i], "_is_wrapper")
                THEN last'.ret = idict[i]["_is_wrapper"] /\ idict'[i] = idict[i]
                ELSE /\ last'.ret = FALSE
                     /\ idict'[i] = SetAttr(idict[i], "_is_wrapper", FALSE)
          /\ (last'.inst = i /\ last'.op = "write_id") =>
                idict'[i]["_syft_id"] = last'.ret
          /\ (last'.inst = i /\ last'.op = "write_owner") =>
                idict'[i]["_owner"] = last'.ret
          /\ (last'.inst = i /\ last'.op = "write_is_wrapper") =>
                idict'[i]["_is_wrapper"] = last'.ret
      ]_vars

\* a later read of the id of such an instance: the popped id, no new pop
C9_Witness ==
    /\ last.op = "read_id"
    /\ last.inst \in bypassed
    /\ last.pops = Len(popped)
    /\ last.ret \in Range(popped)
    /\ HasAttr(idict[last.inst], "_owner")

Finished(t, prop) == rpc[t] = "done" /\ rprop[t] = prop

\* C10: no read fails and a finished read of id returns an id popped from
\* the provider while the instance holds an id; when
\* two finished reads of id on the instance returned different ids, both
\* threads had found the field missing and popped, and one of them returned
\* an id that is not the one the instance holds.
C10_RacyFirstRead ==
    /\ \A t \in Threads : rpc[t] # "failed"
    /\ \A t \in Threads :
          Finished(t, "id") =>
              /\ rret[t][1] \in Range(popped)
              /\ HasAttr(rdict, "_syft_id")
    /\ \A t, u \in Threads :
          (Finished(t, "id") /\ Finished(u, "id") /\ rret[t] # rret[u]) =>
              /\ rloc[t] # <<>> /\ rloc[u] # <<>>
              /\ Len(popped) = 2
              /\ rret[t][1] # rdict["_syft_id"] \/ rret[u][1] # rdict["_syft_id"]

\* both first reads popped; thread a's read returned an id that is not stored
C10_Witness ==
    /\ Finished("a", "id") /\ Finished("b", "id")
    /\ rret["a"] # rret["b"]
    /\ rret["a"][1] # rdict["_syft_id"]
    /\ rret["b"][1] = rdict["_syft_id"]

====
